---- MODULE Spec2Model ----
(***************************************************************************)
(* Model of src/reactor/main.py: the reactor monitoring relay.             *)
(*                                                                         *)
(* The server runs on one asyncio event loop, so a step of the model is    *)
(* the code a task runs between two suspension points (a network receive   *)
(* or send, the timer sleep).  The asyncio locks of DataManager and        *)
(* ConnectionManager are never held across a suspension point, so an       *)
(* `async with self._lock` block is always entered without waiting and is  *)
(* part of the step that contains it.                                      *)
(*                                                                         *)
(* Floating point telemetry values are represented in hundredths           *)
(* (350.2 is 35020).  For such values int(v * 10) is the truncation of     *)
(* v * 10 toward zero, which is what ScaleBy10 computes.                   *)
(***************************************************************************)
EXTENDS Integers, Sequences, FiniteSets, TLC

\* ------------------------------------------------------------------ bounds
MaxConns == 2       \* producer websocket connections ever opened
MaxReadings == 2    \* readings ever appended to the log
MaxSessions == 1    \* consumer socket.io sessions
MaxMalformed == 1   \* malformed texts a websocket sends
MaxLogConns == 1    \* producer connections in the log and forwarding views
MaxConsumerSessions == 2   \* consumer sessions in the presence view

Conns == 1..MaxConns
LogConns == { c \in Conns : c <= MaxLogConns }
Sids == 1..MaxSessions
ConsumerSids == 1..MaxConsumerSessions
Ids == {"A", "B"}

None == -1

\* ------------------------------------------------------------ configuration
SECRET_KEY == "supersecretkey"
Secrets == {"supersecretkey", "wrong"}

\* ------------------------------------------------------- ReactorDataModel
ReactorDataModel(ts, t, f, c, w, s, a) ==
    [timestamp |-> ts, temperature |-> t, fuel_level |-> f, coolant_level |-> c,
     waste_level |-> w, status |-> s, burn_rate |-> 0, actual_burn_rate |-> 0,
     alert_status |-> a]

DefaultReading == ReactorDataModel(None, 0, 0, 0, 0, FALSE, 0)

\* The readings producers send: the end-to-end example of the design
\* (temperature 350.2, fuel 80.0, coolant 95.5, waste 10.0, status true,
\* alert 2) and a reading with a negative temperature and fractional parts.
ExampleReading == ReactorDataModel(None, 35020, 8000, 9550, 1000, TRUE, 2)

Payloads ==
    { ExampleReading,
      ReactorDataModel(None, -100, 8005, 0, 655360, FALSE, 1) }

\* Text frames a producer can send: a JSON document of a reading, a text
\* that is no JSON at all, and a JSON document whose temperature is no number.
Texts ==
    { [kind |-> "reading", data |-> p] : p \in Payloads }
    \cup { [kind |-> "not_json", data |-> DefaultReading],
           [kind |-> "wrong_type", data |-> DefaultReading] }

\* A call returns [exc |-> "none", val |-> v] or raises [exc |-> class].
Return(v) == [exc |-> "none", val |-> v]
Raise(e) == [exc |-> e, val |-> None]

\* Exception classes that derive from Exception (asyncio.CancelledError does
\* not).
ExceptionClasses ==
    {"ValidationError", "WebSocketDisconnect", "JSONDecodeError", "struct.error",
     "RuntimeError", "SchemaError", "OSError", "ConnectionError"}

\* pydantic reports both invalid JSON and invalid field types as
\* pydantic_core.ValidationError.
model_validate_json(text) ==
    IF text.kind = "reading" THEN Return(text.data) ELSE Raise("ValidationError")

\* The except clauses of websocket_endpoint.
InnerCatch(e) == e = "JSONDecodeError"
OuterCatch(e) == e = "WebSocketDisconnect"

\* ------------------------------------------------------------------- dict
\* A Python dict keeps its entries in insertion order; a deleted entry stays
\* in the entry table as a dummy, and a new key is appended.  (The table of a
\* small dict is compacted on the sixth insertion; the model opens fewer
\* connections than that.)
Dummy == [computer_id |-> "<dummy>", websocket |-> None]

DictIndex(d, k) ==
    IF \E i \in 1..Len(d) : d[i].computer_id = k
    THEN CHOOSE i \in 1..Len(d) : d[i].computer_id = k
    ELSE 0

DictKeys(d) == { d[i].computer_id : i \in { j \in 1..Len(d) : d[j] # Dummy } }

DictValues(d) == { d[i].websocket : i \in { j \in 1..Len(d) : d[j] # Dummy } }

DictUsed(d) == Cardinality({ j \in 1..Len(d) : d[j] # Dummy })

DictSet(d, k, v) ==
    IF DictIndex(d, k) # 0
    THEN [d EXCEPT ![DictIndex(d, k)] = [computer_id |-> k, websocket |-> v]]
    ELSE Append(d, [computer_id |-> k, websocket |-> v])

DictDel(d, k) == [d EXCEPT ![DictIndex(d, k)] = Dummy]

\* ------------------------------------------------------ ConnectionManager
add_computercraft(d, computer_id, websocket) == DictSet(d, computer_id, websocket)

\* Mutant of remove_computercraft: every entry is deleted.
remove_every_entry(d, computer_id) == [i \in 1..Len(d) |-> Dummy]

remove_computercraft(d, computer_id) ==
    IF computer_id \in DictKeys(d) THEN DictDel(d, computer_id) ELSE d

\* ------------------------------------------------------------------ state
VARIABLES
    computercraft_connections,  \* ConnectionManager: the dict's entry table
    esp8266_connected,          \* ConnectionManager: consumer-presence flag
    sessions,                   \* socket.io sessions currently connected
    ws_state,                   \* per websocket: where its handler is
    ws_id,                      \* per websocket: the computer_id of its path
    ws_exc,                     \* per websocket: exception that ended the handler
    ws_rx,                      \* per websocket: kinds of the texts received
    reactor_data,               \* DataManager: latest known reading
    data_buffer,                \* DataManager: readings awaiting a flush
    data_log,                   \* DataManager: the in-memory durable table
    log_file,                   \* the parquet file
    clock,                      \* datetime.now(), one tick per log entry
    ingested,                   \* history: log entries whose append completed
    emitted,                    \* history: reactor_data events sent by sio.emit
    saver,                      \* periodic_data_saver task
    cmd,                        \* control_command handler: the fan-out in progress
    data_response,              \* what GET /data answers in this step
    data_lock,                  \* DataManager._lock: the task holding it
    conn_lock,                  \* ConnectionManager._lock: the task holding it
    lifespan,                   \* lifespan context manager: where shutdown is
    codec_in,                   \* a reading handed to send_to_esp8266 on its own
    codec_out                   \* the events that call emitted

vars == <<computercraft_connections, esp8266_connected, sessions, ws_state, ws_id,
          ws_exc, ws_rx, reactor_data, data_buffer, data_log, log_file, clock,
          ingested, emitted, saver, cmd, data_response, data_lock, conn_lock,
          lifespan, codec_in, codec_out>>

lock_vars == <<data_lock, conn_lock>>
codec_vars == <<codec_in, codec_out>>

registry_vars == <<computercraft_connections, esp8266_connected>>
ws_vars == <<ws_state, ws_id, ws_exc, ws_rx>>
log_vars == <<data_buffer, data_log, log_file>>

\* ------------------------------------------------------------ asyncio.Lock
Task(kind, id) == [kind |-> kind, id |-> id]
Free == Task("none", 0)

Acquire(lock, task) == IF lock = Free THEN task ELSE lock
Release(lock, task) == IF lock = task THEN Free ELSE lock

\* Mutant of async_with: the block's lock is still held when the task
\* reaches its next suspension point (an await inside the block).
async_with_across_await(lock, task) == Acquire(lock, task)

\* `async with self._lock:` around a block without an await: the lock is
\* taken on entry and released on exit, also when the block raises; what is
\* returned is the lock as the task leaves it at its next suspension point.
async_with(lock, task) == Release(Acquire(lock, task), task)

\* ------------------------------------------------------------ DataManager
OldRow == ReactorDataModel(0, 30000, 9000, 9000, 500, TRUE, 0)

\* The parquet file: whether it exists, and the rows it holds.
NoFile == [exists |-> FALSE, rows |-> <<>>]
File(rows) == [exists |-> TRUE, rows |-> rows]

\* The parquet file found at start: absent, or the table of an earlier run.
InitialFiles == {NoFile, File(<<OldRow>>)}

_load_or_initialize_log(file) == IF file.exists THEN file.rows ELSE <<>>

model_copy(reading, now) == [reading EXCEPT !.timestamp = now]

\* Mutant of add_log_entry: the new entry is put at the head of the buffer.
add_log_entry_at_head(buffer, reading, now) == <<model_copy(reading, now)>> \o buffer

add_log_entry(buffer, reading, now) == Append(buffer, model_copy(reading, now))

\* Mutant of flush_buffer_to_log: the buffer is cleared before the library
\* calls, so a call that raises loses the buffered readings.
flush_clearing_first(buffer, log, lib_exc) ==
    IF buffer = <<>>
    THEN [exc |-> "none", data_buffer |-> buffer, data_log |-> log]
    ELSE IF lib_exc # "none"
    THEN [exc |-> lib_exc, data_buffer |-> <<>>, data_log |-> log]
    ELSE [exc |-> "none", data_buffer |-> <<>>, data_log |-> log \o buffer]

\* Mutant of flush_buffer_to_log: only the oldest buffered reading is moved.
flush_oldest_only(buffer, log, lib_exc) ==
    IF buffer = <<>>
    THEN [exc |-> "none", data_buffer |-> buffer, data_log |-> log]
    ELSE IF lib_exc # "none"
    THEN [exc |-> lib_exc, data_buffer |-> buffer, data_log |-> log]
    ELSE [exc |-> "none", data_buffer |-> Tail(buffer),
          data_log |-> Append(log, Head(buffer))]

\* pl.DataFrame(...) and pl.concat(...) are library calls that can raise
\* (lib_exc); they run before the buffer is cleared.
\* Mutant of flush_buffer_to_log: without data_buffer.clear().
flush_keeping_buffer(buffer, log, lib_exc) ==
    IF buffer = <<>>
    THEN [exc |-> "none", data_buffer |-> buffer, data_log |-> log]
    ELSE IF lib_exc # "none"
    THEN [exc |-> lib_exc, data_buffer |-> buffer, data_log |-> log]
    ELSE [exc |-> "none", data_buffer |-> buffer, data_log |-> log \o buffer]

flush_buffer_to_log(buffer, log, lib_exc) ==
    IF buffer = <<>>
    THEN [exc |-> "none", data_buffer |-> buffer, data_log |-> log]
    ELSE IF lib_exc # "none"
    THEN [exc |-> lib_exc, data_buffer |-> buffer, data_log |-> log]
    ELSE [exc |-> "none", data_buffer |-> <<>>, data_log |-> log \o buffer]

\* Mutant of save_log_to_disk: the file gets the table as it was before the
\* flush.
save_before_flush(buffer, log, file, lib_exc, write_exc) ==
    LET flushed == flush_buffer_to_log(buffer, log, lib_exc)
    IN  [exc |-> flushed.exc, data_buffer |-> flushed.data_buffer,
         data_log |-> flushed.data_log,
         log_file |-> IF flushed.exc = "none" /\ write_exc = "none" /\ log # <<>>
                      THEN File(log) ELSE file]

\* write_parquet can raise (write_exc); the file then keeps its old content.
save_log_to_disk(buffer, log, file, lib_exc, write_exc) ==
    LET flushed == flush_buffer_to_log(buffer, log, lib_exc)
    IN  IF flushed.exc # "none"
        THEN [exc |-> flushed.exc, data_buffer |-> flushed.data_buffer,
              data_log |-> flushed.data_log, log_file |-> file]
        ELSE IF flushed.data_log = <<>>
        THEN [exc |-> "none", data_buffer |-> flushed.data_buffer,
              data_log |-> flushed.data_log, log_file |-> file]
        ELSE IF write_exc # "none"
        THEN [exc |-> write_exc, data_buffer |-> flushed.data_buffer,
              data_log |-> flushed.data_log, log_file |-> file]
        ELSE [exc |-> "none", data_buffer |-> flushed.data_buffer,
              data_log |-> flushed.data_log, log_file |-> File(flushed.data_log)]

LibOutcomes == {"none", "SchemaError"}
WriteOutcomes == {"none", "OSError"}
EmitOutcomes == {"none", "ConnectionError"}

\* ------------------------------------------------------------ packet codec
Min(a, b) == IF a < b THEN a ELSE b

\* int(v * 10) for v given in hundredths: truncation toward zero.
ScaleBy10(v) == IF v >= 0 THEN v \div 10 ELSE -((-v) \div 10)

\* The struct format "!BHHHHBB": big-endian, seven fields.
PacketFormat == <<"B", "H", "H", "H", "H", "B", "B">>

FieldMax(code) == IF code = "B" THEN 255 ELSE 65535

RECURSIVE PackBytes(_, _)
PackBytes(fmt, values) ==
    IF fmt = <<>> THEN <<>>
    ELSE (IF Head(fmt) = "B" THEN <<Head(values)>>
          ELSE <<Head(values) \div 256, Head(values) % 256>>)
         \o PackBytes(Tail(fmt), Tail(values))

\* struct.pack raises struct.error when the number of values differs from
\* the number of format fields or a value is out of its field's range.
struct_pack(fmt, values) ==
    IF Len(values) # Len(fmt) THEN Raise("struct.error")
    ELSE IF \E i \in 1..Len(fmt) : values[i] < 0 \/ values[i] > FieldMax(fmt[i])
    THEN Raise("struct.error")
    ELSE Return(PackBytes(fmt, values))

HexDigits == <<"0", "1", "2", "3", "4", "5", "6", "7", "8", "9",
               "a", "b", "c", "d", "e", "f">>

RECURSIVE hex(_)
hex(bytes) ==
    IF bytes = <<>> THEN <<>>
    ELSE <<HexDigits[(Head(bytes) \div 16) + 1], HexDigits[(Head(bytes) % 16) + 1]>>
         \o hex(Tail(bytes))

\* The values send_to_esp8266 hands to struct.pack: header, four scaled
\* fields, status, alert and checksum.
PacketValues(data) ==
    << 170,
       Min(ScaleBy10(data.temperature), 65535),
       Min(ScaleBy10(data.fuel_level), 65535),
       Min(ScaleBy10(data.coolant_level), 65535),
       Min(ScaleBy10(data.waste_level), 65535),
       IF data.status = TRUE THEN 1 ELSE 0,
       data.alert_status,
       85 >>

\* Mutant of SendCatch: send_to_esp8266 without its try/except.
SendCatchNothing(e) == FALSE

\* except Exception in send_to_esp8266.
SendCatch(e) == e \in ExceptionClasses

\* send_to_esp8266: the events emitted so far after the call, and the
\* exception that leaves it.  emit_exc is the outcome of sio.emit.
send_to_esp8266(data, out, emit_exc) ==
    LET packet == struct_pack(PacketFormat, PacketValues(data))
        raised == IF packet.exc # "none" THEN packet.exc ELSE emit_exc
    IN  IF raised = "none"
        THEN [exc |-> "none",
              emitted |-> Append(out, [event |-> "reactor_data",
                                       data |-> hex(packet.val)])]
        ELSE [exc |-> IF SendCatch(raised) THEN "none" ELSE raised, emitted |-> out]

\* ------------------------------------------------------- dict iteration
\* for ... in d.items(): the iterator remembers the dict's size (di_used),
\* the entries it may still yield (di_len) and its position in the entry
\* table (di_pos).  next() raises RuntimeError when the size differs from the
\* remembered one, or when it finds an entry after it has yielded di_used
\* entries.
DictIter(d) == [di_used |-> DictUsed(d), di_len |-> DictUsed(d), di_pos |-> 1]

DictIterNext(d, it) ==
    LET live == { i \in it.di_pos..Len(d) : d[i] # Dummy }
        i == CHOOSE j \in live : \A k \in live : j <= k
    IN  IF it.di_used # DictUsed(d) THEN Raise("RuntimeError")
        ELSE IF live = {} THEN Raise("StopIteration")
        ELSE IF it.di_len = 0 THEN Raise("RuntimeError")
        ELSE Return([entry |-> d[i],
                     it |-> [it EXCEPT !.di_pos = i + 1, !.di_len = @ - 1]])

\* ------------------------------------------------------- control_command
\* Mutant of CmdSendCatch: the send loop without its inner try/except.
CmdSendCatchNothing(e) == FALSE

\* The except clauses of control_command: around one send (line 243) and
\* around the whole handler (line 245).
CmdSendCatch(e) == e \in ExceptionClasses
CmdOuterCatch(e) == e \in ExceptionClasses

IdleCommand ==
    [pc |-> "idle", it |-> DictIter(<<>>), target |-> None, table |-> <<>>,
     attempted |-> {}, failed |-> {}, delivered |-> {}]

SendOutcomes == {"none", "RuntimeError"}

\* ------------------------------------------------------ GET /data answer
NoResponse == [status |-> 0, rows |-> <<>>]
NotEncoded == <<[event |-> "none", data |-> <<>>]>>

\* ------------------------------------------------------------------- Init
InitState ==
    /\ computercraft_connections = <<>>
    /\ esp8266_connected = FALSE
    /\ sessions = {}
    /\ ws_state = [c \in Conns |-> "new"]
    /\ ws_id = [c \in Conns |-> "-"]
    /\ ws_exc = [c \in Conns |-> "none"]
    /\ ws_rx = [c \in Conns |-> 0]
    /\ reactor_data = DefaultReading
    /\ data_buffer = <<>>
    /\ log_file \in InitialFiles
    /\ data_log = _load_or_initialize_log(log_file)
    /\ clock = 1
    /\ ingested = <<>>
    /\ emitted = <<>>
    /\ saver = "sleeping"
    /\ cmd = IdleCommand
    /\ data_response = NoResponse
    /\ data_lock = Free
    /\ conn_lock = Free
    /\ lifespan = "running"
    /\ codec_out = NotEncoded

Init ==
    /\ InitState
    /\ codec_in = DefaultReading

\* ------------------------------------------------- producer link (websocket)
\* Mutant of get_secret_key: the dependency without its comparison.
get_secret_key_unchecked(secret) == Return(secret)

get_secret_key(secret) ==
    IF secret # SECRET_KEY THEN Raise("HTTPException") ELSE Return(secret)

\* A producer opens /ws/computercraft/{computer_id}?secret=...: the
\* dependency get_secret_key runs before the handler; the handler then
\* suspends in websocket.accept().
Connect(c, computer_id, secret) ==
    /\ ws_state[c] = "new"
    /\ IF get_secret_key(secret).exc # "none"
       THEN /\ ws_state' = [ws_state EXCEPT ![c] = "rejected"]
            /\ UNCHANGED ws_id
       ELSE /\ ws_state' = [ws_state EXCEPT ![c] = "accepting"]
            /\ ws_id' = [ws_id EXCEPT ![c] = computer_id]
    /\ UNCHANGED <<registry_vars, sessions, ws_exc, ws_rx, reactor_data, log_vars,
                   clock, ingested, emitted, saver, cmd, lock_vars>>
    /\ data_response' = NoResponse
    /\ UNCHANGED <<lifespan, codec_vars>>

\* accept() returns; the handler registers the websocket and suspends in
\* receive_text().
Accepted(c) ==
    /\ ws_state[c] = "accepting"
    /\ computercraft_connections' =
           add_computercraft(computercraft_connections, ws_id[c], c)
    /\ ws_state' = [ws_state EXCEPT ![c] = "receiving"]
    /\ conn_lock = Free
    /\ conn_lock' = async_with(conn_lock, Task("websocket", c))
    /\ UNCHANGED <<esp8266_connected, sessions, ws_id, ws_exc, ws_rx, reactor_data,
                   log_vars, clock, ingested, emitted, saver, cmd, data_lock>>
    /\ data_response' = NoResponse
    /\ UNCHANGED <<lifespan, codec_vars>>

\* How an exception e raised in the receive loop leaves websocket_endpoint.
\* in_try: raised inside the inner try block (lines 176-186).
HandlerAfter(c, e, in_try) ==
    IF e = "none" \/ (in_try /\ InnerCatch(e))
    THEN /\ ws_state' = [ws_state EXCEPT ![c] = "receiving"]
         /\ UNCHANGED <<computercraft_connections, ws_exc, conn_lock>>
    ELSE IF OuterCatch(e)
    THEN /\ ws_state' = [ws_state EXCEPT ![c] = "disconnected"]
         /\ conn_lock = Free
         /\ computercraft_connections' =
                remove_computercraft(computercraft_connections, ws_id[c])
         /\ conn_lock' = async_with(conn_lock, Task("websocket", c))
         /\ UNCHANGED ws_exc
    ELSE /\ ws_state' = [ws_state EXCEPT ![c] = "failed"]
         /\ ws_exc' = [ws_exc EXCEPT ![c] = e]
         /\ UNCHANGED <<computercraft_connections, conn_lock>>

\* receive_text() returns a text: one turn of the receive loop.  The call of
\* sio.emit in send_to_esp8266 is part of the step (emit_exc is its outcome).
ReceiveText(c, text, emit_exc) ==
    /\ ws_state[c] = "receiving"
    /\ text.kind = "reading" => clock <= MaxReadings
    /\ text.kind # "reading" => ws_rx[c] < MaxMalformed
    /\ LET parsed == model_validate_json(text)
           entry == model_copy(parsed.val, clock)
           sent == IF esp8266_connected
                   THEN send_to_esp8266(parsed.val, emitted, emit_exc)
                   ELSE [exc |-> "none", emitted |-> emitted]
       IN  IF parsed.exc # "none"
           THEN /\ ws_rx' = [ws_rx EXCEPT ![c] = @ + 1]
                /\ HandlerAfter(c, parsed.exc, TRUE)
                /\ UNCHANGED <<reactor_data, data_buffer, clock, ingested, emitted,
                               data_lock>>
           ELSE /\ reactor_data' = parsed.val
                /\ data_lock = Free
                /\ data_lock' = async_with(data_lock, Task("websocket", c))
                /\ data_buffer' = add_log_entry(data_buffer, parsed.val, clock)
                /\ clock' = clock + 1
                /\ ingested' = Append(ingested,
                       [entry |-> entry, conn |-> c, consumer |-> esp8266_connected])
                /\ emitted' = sent.emitted
                /\ HandlerAfter(c, sent.exc, TRUE)
                /\ UNCHANGED ws_rx
    /\ UNCHANGED <<esp8266_connected, sessions, ws_id, data_log, log_file, saver, cmd>>
    /\ data_response' = NoResponse
    /\ UNCHANGED <<lifespan, codec_vars>>

\* receive_text() raises WebSocketDisconnect: the peer closed the link or the
\* transport failed.
ReceiveDisconnect(c) ==
    /\ ws_state[c] = "receiving"
    /\ HandlerAfter(c, "WebSocketDisconnect", FALSE)
    /\ UNCHANGED <<esp8266_connected, sessions, ws_id, ws_rx, reactor_data, log_vars,
                   clock, ingested, emitted, saver, cmd, data_lock>>
    /\ data_response' = NoResponse
    /\ UNCHANGED <<lifespan, codec_vars>>

\* ------------------------------------------------- consumer link (socket.io)
set_esp8266_connected(status) == status

SioConnect(sid) ==
    /\ sid \notin sessions
    /\ sessions' = sessions \cup {sid}
    /\ esp8266_connected' = set_esp8266_connected(TRUE)
    /\ conn_lock = Free
    /\ conn_lock' = async_with(conn_lock, Task("socketio", sid))
    /\ UNCHANGED <<computercraft_connections, ws_vars, reactor_data, log_vars, clock,
                   ingested, emitted, saver, cmd, data_lock>>
    /\ data_response' = NoResponse
    /\ UNCHANGED <<lifespan, codec_vars>>

SioDisconnect(sid) ==
    /\ sid \in sessions
    /\ sessions' = sessions \ {sid}
    /\ esp8266_connected' = set_esp8266_connected(FALSE)
    /\ conn_lock = Free
    /\ conn_lock' = async_with(conn_lock, Task("socketio", sid))
    /\ UNCHANGED <<computercraft_connections, ws_vars, reactor_data, log_vars, clock,
                   ingested, emitted, saver, cmd, data_lock>>
    /\ data_response' = NoResponse
    /\ UNCHANGED <<lifespan, codec_vars>>

\* ------------------------------------------------------ log: flush, persist
\* One tick of periodic_data_saver: the sleep returns and save_log_to_disk
\* runs.  An exception leaves the `while True` loop and ends the task.
PeriodicSave(lib_exc, write_exc) ==
    /\ saver = "sleeping"
    /\ data_lock = Free
    /\ data_lock' = async_with(async_with(data_lock, Task("saver", 0)), Task("saver", 0))
    /\ LET saved == save_log_to_disk(data_buffer, data_log, log_file, lib_exc, write_exc)
       IN  /\ data_buffer' = saved.data_buffer
           /\ data_log' = saved.data_log
           /\ log_file' = saved.log_file
           /\ saver' = IF saved.exc = "none" THEN "sleeping" ELSE "failed"
    /\ UNCHANGED <<registry_vars, sessions, ws_vars, reactor_data, clock, ingested,
                   emitted, cmd, conn_lock>>
    /\ data_response' = NoResponse
    /\ UNCHANGED <<lifespan, codec_vars>>

\* Mutant of tail: the first rows of the table instead of the last.
head(rows, n) == SubSeq(rows, 1, Min(n, Len(rows)))

\* DataFrame.tail(n): the last n rows, in the table's order.
tail(rows, n) == SubSeq(rows, Len(rows) - Min(n, Len(rows)) + 1, Len(rows))

\* The row counts a history query asks for; DefaultLimit when it names none.
DefaultLimit == 100
Limits == {0, 1, 2, DefaultLimit}

Response(status, limit, rows) == [status |-> status, limit |-> limit, rows |-> rows]

\* GET /data: flush, then read the tail of the table.  An exception of the
\* flush leaves the handler before the read: the answer is a server error.
GetDataLog(limit, lib_exc) ==
    /\ data_lock = Free
    /\ data_lock' = async_with(data_lock, Task("http", 0))
    /\ LET flushed == flush_buffer_to_log(data_buffer, data_log, lib_exc)
       IN  /\ data_buffer' = flushed.data_buffer
           /\ data_log' = flushed.data_log
           /\ data_response' = IF flushed.exc # "none"
                                THEN Response(500, limit, <<>>)
                                ELSE Response(200, limit, tail(flushed.data_log, limit))
    /\ UNCHANGED <<registry_vars, sessions, ws_vars, reactor_data, log_file, clock,
                   ingested, emitted, saver, cmd, conn_lock, lifespan, codec_vars>>

\* -------------------------------------------------------------- lifespan
\* suppress(asyncio.CancelledError) around `await task`.
SuppressCatch(e) == e = "CancelledError"

\* Shutdown: task.cancel(), then `await task`.  A task that is still
\* sleeping gets the cancellation at its sleep and the lifespan waits for
\* it; a task that already ended with an exception hands that exception to
\* the await at once.
Shutdown ==
    /\ lifespan = "running"
    /\ IF saver = "sleeping"
       THEN /\ saver' = "cancelling"
            /\ lifespan' = "awaiting"
       ELSE /\ saver' = saver
            /\ lifespan' = IF SuppressCatch("Exception") THEN "stopped" ELSE "raised"
    /\ data_response' = NoResponse
    /\ UNCHANGED <<registry_vars, sessions, ws_vars, reactor_data, log_vars, clock,
                   ingested, emitted, cmd, lock_vars, codec_vars>>

\* CancelledError is thrown into the saver at `await asyncio.sleep(interval)`;
\* nothing catches it, the task ends cancelled.
SaverCancelled ==
    /\ saver = "cancelling"
    /\ saver' = "cancelled"
    /\ data_response' = NoResponse
    /\ UNCHANGED <<registry_vars, sessions, ws_vars, reactor_data, log_vars, clock,
                   ingested, emitted, cmd, lock_vars, lifespan, codec_vars>>

\* `await task` returns to the lifespan with the task's CancelledError.
ShutdownDone ==
    /\ lifespan = "awaiting"
    /\ saver = "cancelled"
    /\ lifespan' = IF SuppressCatch("CancelledError") THEN "stopped" ELSE "raised"
    /\ data_response' = NoResponse
    /\ UNCHANGED <<registry_vars, sessions, ws_vars, reactor_data, log_vars, clock,
                   ingested, emitted, saver, cmd, lock_vars, codec_vars>>

\* ------------------------------------------------- the encoder on its own
\* Scaled field values (hundredths): zero, the example reading's, the last
\* value that fits 16 bits, the first that does not, and 10000.0.
CodecValues == {0, 35020, 655359, 655360, 1000000}
CodecInputs ==
    { ReactorDataModel(None, t, f, c, w, s, 2) :
          t \in CodecValues, f \in CodecValues, c \in CodecValues,
          w \in CodecValues, s \in BOOLEAN }

CodecInit ==
    /\ InitState
    /\ codec_in \in CodecInputs

\* send_to_esp8266(codec_in) with an emit that succeeds: the events it
\* emitted.
Encode ==
    /\ codec_out = NotEncoded
    /\ codec_out' = send_to_esp8266(codec_in, <<>>, "none").emitted
    /\ UNCHANGED <<registry_vars, sessions, ws_vars, reactor_data, log_vars, clock,
                   ingested, emitted, saver, cmd, data_response, lock_vars, lifespan,
                   codec_in>>

\* GET /status.
get_status ==
    [computercraft_connections |-> DictKeys(computercraft_connections),
     esp8266_connected |-> esp8266_connected,
     reactor_data |-> reactor_data]

\* ------------------------------------- consumer command: control_command
\* The payloads of a control_command event: a command, and an object
\* without the required field `command`.
CommandData == { [command |-> "scram", value |-> 1], [value |-> 1] }

ControlCommand_model_validate(data) ==
    IF "command" \in DOMAIN data THEN Return(data) ELSE Raise("ValidationError")

\* The for statement asks the iterator for the next entry and, when there is
\* one, suspends in websocket.send_text(); c0 is the handler's state before.
CommandLoop(c0, d) ==
    LET nxt == DictIterNext(d, c0.it)
    IN  IF nxt.exc = "StopIteration"
        THEN [c0 EXCEPT !.pc = "done", !.target = None]
        ELSE IF nxt.exc # "none"
        THEN [c0 EXCEPT !.pc = IF CmdOuterCatch(nxt.exc) THEN "aborted" ELSE "raised",
                        !.target = None]
        ELSE [c0 EXCEPT !.pc = "sending", !.it = nxt.val.it,
                        !.target = nxt.val.entry.websocket,
                        !.attempted = @ \cup {nxt.val.entry.websocket}]

\* The consumer sends a control_command event: validation, then the start of
\* the fan-out over computercraft_connections.items().
ControlCommand(data) ==
    /\ cmd.pc # "sending"
    /\ LET command == ControlCommand_model_validate(data)
       IN  cmd' = IF command.exc # "none"
                  THEN [IdleCommand EXCEPT
                            !.pc = IF CmdOuterCatch(command.exc)
                                   THEN "rejected" ELSE "raised"]
                  ELSE CommandLoop(
                           [IdleCommand EXCEPT
                                !.table = computercraft_connections,
                                !.it = DictIter(computercraft_connections)],
                           computercraft_connections)
    /\ UNCHANGED <<registry_vars, sessions, ws_vars, reactor_data, log_vars, clock,
                   ingested, emitted, saver, lock_vars>>
    /\ data_response' = NoResponse
    /\ UNCHANGED <<lifespan, codec_vars>>

\* send_text() to the current target returns or raises (exc); the loop goes
\* on to the next entry.  A send succeeds only on a websocket whose handler
\* is still receiving.
SendReturn(exc) ==
    /\ cmd.pc = "sending"
    /\ exc = "none" => ws_state[cmd.target] = "receiving"
    /\ cmd' = IF exc = "none"
              THEN CommandLoop([cmd EXCEPT !.delivered = @ \cup {cmd.target}],
                               computercraft_connections)
              ELSE IF CmdSendCatch(exc)
              THEN CommandLoop([cmd EXCEPT !.failed = @ \cup {cmd.target}],
                               computercraft_connections)
              ELSE [cmd EXCEPT !.failed = @ \cup {cmd.target}, !.target = None,
                               !.pc = IF CmdOuterCatch(exc) THEN "aborted" ELSE "raised"]
    /\ UNCHANGED <<registry_vars, sessions, ws_vars, reactor_data, log_vars, clock,
                   ingested, emitted, saver, lock_vars>>
    /\ data_response' = NoResponse
    /\ UNCHANGED <<lifespan, codec_vars>>

\* ------------------------------------------------------------------- Next
\* The relay: producer links, consumer presence, the log and its flusher.
RelayNext ==
    \/ \E c \in Conns, id \in Ids, secret \in Secrets : Connect(c, id, secret)
    \/ \E c \in Conns : Accepted(c)
    \/ \E c \in Conns, text \in Texts, emit_exc \in EmitOutcomes :
           ReceiveText(c, text, emit_exc)
    \/ \E c \in Conns : ReceiveDisconnect(c)
    \/ \E sid \in Sids : SioConnect(sid)
    \/ \E sid \in Sids : SioDisconnect(sid)
    \/ \E lib_exc \in LibOutcomes, write_exc \in WriteOutcomes :
           PeriodicSave(lib_exc, write_exc)
    \/ \E lib_exc \in LibOutcomes : GetDataLog(DefaultLimit, lib_exc)

\* The command fan-out and the registry changes that run concurrently with it.
DispatchNext ==
    \/ \E c \in Conns, id \in Ids, secret \in Secrets : Connect(c, id, secret)
    \/ \E c \in Conns : Accepted(c)
    \/ \E c \in Conns : ReceiveDisconnect(c)
    \/ \E data \in CommandData : ControlCommand(data)
    \/ \E exc \in SendOutcomes : SendReturn(exc)

\* The log on its own: producers appending, the flusher and GET /data.
LogNext ==
    \/ \E c \in LogConns, id \in Ids, secret \in Secrets : Connect(c, id, secret)
    \/ \E c \in LogConns : Accepted(c)
    \/ \E c \in LogConns, text \in Texts, emit_exc \in EmitOutcomes :
           ReceiveText(c, text, emit_exc)
    \/ \E c \in LogConns : ReceiveDisconnect(c)
    \/ \E lib_exc \in LibOutcomes, write_exc \in WriteOutcomes :
           PeriodicSave(lib_exc, write_exc)
    \/ \E lib_exc \in LibOutcomes : GetDataLog(DefaultLimit, lib_exc)

\* The history query with every row count, on a log fed by producers that
\* know the secret and whose texts all parse.
HistoryNext ==
    \/ \E c \in LogConns, id \in Ids : Connect(c, id, SECRET_KEY)
    \/ \E c \in LogConns : Accepted(c)
    \/ \E c \in LogConns, text \in { t \in Texts : t.kind = "reading" },
           emit_exc \in EmitOutcomes :
           ReceiveText(c, text, emit_exc)
    \/ \E c \in LogConns : ReceiveDisconnect(c)
    \/ \E lib_exc \in LibOutcomes, write_exc \in WriteOutcomes :
           PeriodicSave(lib_exc, write_exc)
    \/ \E limit \in Limits, lib_exc \in LibOutcomes : GetDataLog(limit, lib_exc)

\* Ingest and forwarding on their own: producers and consumer sessions.
ForwardNext ==
    \/ \E c \in LogConns, id \in Ids, secret \in Secrets : Connect(c, id, secret)
    \/ \E c \in LogConns : Accepted(c)
    \/ \E c \in LogConns, text \in Texts, emit_exc \in EmitOutcomes :
           ReceiveText(c, text, emit_exc)
    \/ \E c \in LogConns : ReceiveDisconnect(c)
    \/ \E sid \in Sids : SioConnect(sid)
    \/ \E sid \in Sids : SioDisconnect(sid)

\* The log and the shutdown of its flusher.
LifespanNext ==
    \/ LogNext
    \/ Shutdown
    \/ SaverCancelled
    \/ ShutdownDone

\* Every task that takes a lock or suspends on a peer: one producer, the
\* consumer's sessions and commands, the flusher and GET /data.
LockNext ==
    \/ \E c \in LogConns, id \in Ids, secret \in Secrets : Connect(c, id, secret)
    \/ \E c \in LogConns : Accepted(c)
    \/ \E c \in LogConns, text \in Texts, emit_exc \in EmitOutcomes :
           ReceiveText(c, text, emit_exc)
    \/ \E c \in LogConns : ReceiveDisconnect(c)
    \/ \E lib_exc \in LibOutcomes, write_exc \in WriteOutcomes :
           PeriodicSave(lib_exc, write_exc)
    \/ \E lib_exc \in LibOutcomes : GetDataLog(DefaultLimit, lib_exc)
    \/ \E sid \in Sids : SioConnect(sid)
    \/ \E sid \in Sids : SioDisconnect(sid)
    \/ \E data \in CommandData : ControlCommand(data)
    \/ \E exc \in SendOutcomes : SendReturn(exc)

\* Consumer presence: a consumer that reconnects under a new sid while one
\* producer sends readings.
PresenceNext ==
    \/ \E c \in LogConns, id \in Ids, secret \in Secrets : Connect(c, id, secret)
    \/ \E c \in LogConns : Accepted(c)
    \/ \E c \in LogConns, text \in Texts, emit_exc \in EmitOutcomes :
           ReceiveText(c, text, emit_exc)
    \/ \E c \in LogConns : ReceiveDisconnect(c)
    \/ \E sid \in ConsumerSids : SioConnect(sid)
    \/ \E sid \in ConsumerSids : SioDisconnect(sid)

Next ==
    \/ RelayNext
    \/ DispatchNext
    \/ HistoryNext
    \/ LifespanNext
    \/ LockNext
    \/ PresenceNext
    \/ Encode

Spec == Init /\ [][Next]_vars

SpecRelay == Init /\ [][RelayNext]_vars

SpecDispatch == Init /\ [][DispatchNext]_vars

SpecLog == Init /\ [][LogNext]_vars

SpecHistory == Init /\ [][HistoryNext]_vars

SpecForward == Init /\ [][ForwardNext]_vars

SpecLifespan == Init /\ [][LifespanNext]_vars

SpecLocks == Init /\ [][LockNext]_vars

SpecPresence == Init /\ [][PresenceNext]_vars

SpecCodec == CodecInit /\ [][Encode]_vars

\* ---------------------------------------------------------------- claims
InSeq(e, seq) == \E k \in 1..Len(seq) : seq[k] = e

Pos(e, seq) == CHOOSE k \in 1..Len(seq) : seq[k] = e

Finished(c) == c.pc \in {"done", "aborted", "raised"}

\* C1: fault isolation of the command fan-out.  In a fan-out during which
\* the registry is not changed, a failed send never ends the fan-out: the
\* handler goes on sending, and when it is done a send has been attempted to
\* every registered producer.
C1_FaultIsolation ==
    (cmd.failed # {} /\ computercraft_connections = cmd.table)
        => /\ cmd.pc \in {"sending", "done"}
           /\ cmd.pc = "done" => cmd.attempted = DictValues(cmd.table)

\* C1 witness: a finished fan-out over an unchanged registry in which the
\* send to an earlier entry failed and a later entry got the command.
C1_Witness ==
    /\ cmd.pc = "done"
    /\ computercraft_connections = cmd.table
    /\ \E i, j \in 1..Len(cmd.table) :
           /\ i < j
           /\ cmd.table[i].websocket \in cmd.failed
           /\ cmd.table[j].websocket \in cmd.delivered

\* C2: the fan-out works on a snapshot of the registry.  Whatever is added
\* or removed while it is suspended on a send, it does not fail, and when it
\* ends a send has been attempted to every producer registered at its start.
C2_SnapshotFanOut ==
    Finished(cmd)
        => /\ cmd.pc = "done"
           /\ DictValues(cmd.table) \subseteq cmd.attempted

\* C3: a malformed producer text is discarded and the connection stays open:
\* no handler that received a malformed text has been ended by an exception.
C3_MalformedKeepsOpen ==
    \A c \in Conns : ws_rx[c] > 0 => ws_state[c] # "failed"

\* C4: the producer identifiers the status query reports are exactly those
\* of the connections whose handler is still open.
C4_StatusMatchesOpen ==
    get_status.computercraft_connections
        = { ws_id[c] : c \in { k \in Conns : ws_state[k] = "receiving" } }

\* C5: no reading is lost.  Every reading whose append has completed is in
\* the buffer or in the durable table, whatever flushes and persists have
\* run or failed.
C5_NoReadingLost ==
    \A i \in 1..Len(ingested) :
        InSeq(ingested[i].entry, data_buffer) \/ InSeq(ingested[i].entry, data_log)

\* C5 witness: the flusher has failed, one appended reading is in the table
\* and another is still in the buffer.
C5_Witness ==
    /\ saver = "failed"
    /\ \E i, j \in 1..Len(ingested) :
           /\ InSeq(ingested[i].entry, data_log)
           /\ InSeq(ingested[j].entry, data_buffer)

\* A step that runs flush_buffer_to_log: a tick of the flusher or GET /data.
FlushStep ==
    \/ \E lib_exc \in LibOutcomes, write_exc \in WriteOutcomes :
           PeriodicSave(lib_exc, write_exc)
    \/ \E limit \in Limits, lib_exc \in LibOutcomes : GetDataLog(limit, lib_exc)

\* C6 as claimed: every flush that finds a non-empty buffer leaves the buffer
\* empty and the table longer by exactly the buffered readings.
C6_EveryFlushDrains ==
    [][(FlushStep /\ data_buffer # <<>>)
           => (data_buffer' = <<>> /\ data_log' = data_log \o data_buffer)]_vars

\* C6 as amended: a flush that finds a non-empty buffer either moves the whole
\* buffer to the end of the table and leaves the buffer empty, or (when it
\* raises) leaves buffer and table as they were; it never moves a part.
C6_FlushAllOrNothing ==
    [][(FlushStep /\ data_buffer # <<>>)
           => \/ (data_buffer' = <<>> /\ data_log' = data_log \o data_buffer)
              \/ (data_buffer' = data_buffer /\ data_log' = data_log)]_vars

\* C6 witness: two readings were appended and a flush has moved both.
C6_Witness ==
    /\ data_buffer = <<>>
    /\ \E i, j \in 1..Len(ingested) :
           /\ i # j
           /\ InSeq(ingested[i].entry, data_log)
           /\ InSeq(ingested[j].entry, data_log)

\* C7: ingest order is kept in the durable table.  If A's append completed
\* before B's append started and both are in the table, A's row precedes B's.
C7_IngestOrder ==
    \A i, j \in 1..Len(ingested) :
        (/\ i < j
         /\ InSeq(ingested[i].entry, data_log)
         /\ InSeq(ingested[j].entry, data_log))
            => Pos(ingested[i].entry, data_log) < Pos(ingested[j].entry, data_log)

\* C7 witness: two readings received on one connection are both in the
\* table, behind the rows loaded at start.
C7_Witness ==
    /\ log_file # NoFile
    /\ \E i, j \in 1..Len(ingested) :
           /\ i < j
           /\ ingested[i].conn = ingested[j].conn
           /\ InSeq(ingested[i].entry, data_log)
           /\ InSeq(ingested[j].entry, data_log)

\* C8: a failure of persist() on one tick does not stop the periodic
\* flusher: the task is never ended by the exception.
C8_FlusherSurvives == saver # "failed"

\* A step in which a reading was ingested while the consumer was present and
\* no event reached the consumer: encoding or forwarding failed.
ForwardFailedStep ==
    /\ Len(ingested') = Len(ingested) + 1
    /\ ingested'[Len(ingested')].consumer
    /\ emitted' = emitted

\* C9: a failure while encoding or forwarding a parsed reading leaves the
\* reading recorded as the latest state and appended to the buffer, and
\* leaves the producer's handler receiving.
C9_ForwardFailureIsolated ==
    [][ForwardFailedStep
           => LET h == ingested'[Len(ingested')]
              IN  /\ reactor_data' = [h.entry EXCEPT !.timestamp = None]
                  /\ data_buffer' = Append(data_buffer, h.entry)
                  /\ ws_state'[h.conn] = "receiving"]_vars

\* C9 witness: a reading was ingested with the consumer present, nothing was
\* emitted, the reading is the latest state and is buffered, and its
\* connection is still receiving.
C9_Witness ==
    /\ emitted = <<>>
    /\ \E i \in 1..Len(ingested) :
           /\ ingested[i].consumer
           /\ reactor_data = [ingested[i].entry EXCEPT !.timestamp = None]
           /\ InSeq(ingested[i].entry, data_buffer)
           /\ ws_state[ingested[i].conn] = "receiving"

\* The frame of the wire format documented at send_to_esp8266: header, four
\* 16-bit fields, status, alert, checksum (12 bytes).
FrameLayout == <<"B", "H", "H", "H", "H", "B", "B", "B">>

RECURSIVE ConsumerIngests(_)
ConsumerIngests(hist) ==
    IF hist = <<>> THEN <<>>
    ELSE (IF Head(hist).consumer THEN <<Head(hist).entry>> ELSE <<>>)
         \o ConsumerIngests(Tail(hist))

\* C10: every reading ingested while the consumer-presence flag was true has
\* produced exactly one reactor_data event carrying its scaled fields, status
\* byte and alert byte; a reading ingested while the flag was false has
\* produced none; and every ingested reading is logged.
C10_FramePerIngest ==
    LET expected == ConsumerIngests(ingested)
    IN  /\ Len(emitted) = Len(expected)
        /\ \A k \in 1..Len(emitted) :
               /\ emitted[k].event = "reactor_data"
               /\ emitted[k].data = hex(PackBytes(FrameLayout, PacketValues(expected[k])))
        /\ C5_NoReadingLost

\* The value of a hex digit, and the unsigned 16-bit big-endian field that
\* starts at byte b (counted from 1) of a frame given as hex text.
HexValue(ch) == (CHOOSE k \in 1..16 : HexDigits[k] = ch) - 1

U16At(data, b) ==
    HexValue(data[2 * b - 1]) * 4096 + HexValue(data[2 * b]) * 256
        + HexValue(data[2 * b + 1]) * 16 + HexValue(data[2 * b + 2])

Clamped(v) == IF ScaleBy10(v) <= 65535 THEN ScaleBy10(v) ELSE 65535

\* C11: encoding a reading whose four fields are non-negative is never
\* rejected: it yields one frame in which the temperature, fuel, coolant and
\* waste fields (bytes 2-3, 4-5, 6-7, 8-9) hold the value scaled by 10 and
\* truncated when that fits 16 bits, and 65535 when it does not.
C11_EncodingClamps ==
    codec_out # NotEncoded =>
        /\ Len(codec_out) = 1
        /\ codec_out[1].event = "reactor_data"
        /\ Len(codec_out[1].data) = 2 * Len(PackBytes(FrameLayout, PacketValues(codec_in)))
        /\ U16At(codec_out[1].data, 2) = Clamped(codec_in.temperature)
        /\ U16At(codec_out[1].data, 4) = Clamped(codec_in.fuel_level)
        /\ U16At(codec_out[1].data, 6) = Clamped(codec_in.coolant_level)
        /\ U16At(codec_out[1].data, 8) = Clamped(codec_in.waste_level)

\* C12: a link opened with a secret other than SECRET_KEY is rejected in
\* the step that opens it, with the registry, the consumer flag, the latest
\* reading, the buffer, the table and the file unchanged; a rejected link
\* stays rejected: it is never accepted and never enters the registry.
C12_RejectedBeforeAccept ==
    [][\A c \in Conns :
          /\ \A id \in Ids, secret \in Secrets :
                 (secret # SECRET_KEY /\ Connect(c, id, secret)) =>
                     /\ ws_state'[c] = "rejected"
                     /\ UNCHANGED <<registry_vars, sessions, reactor_data, log_vars,
                                    ingested, emitted>>
          /\ ws_state[c] = "rejected" =>
                 /\ ws_state'[c] = "rejected"
                 /\ c \notin DictValues(computercraft_connections')
      ]_vars

\* A link was rejected while another producer is registered and the table
\* holds a row.
C12_Witness ==
    \E c, c2 \in Conns :
        /\ ws_state[c] = "rejected"
        /\ ws_state[c2] = "receiving"
        /\ c2 \in DictValues(computercraft_connections)
        /\ data_log # <<>>

PersistStep ==
    \E lib_exc \in LibOutcomes, write_exc \in WriteOutcomes :
        PeriodicSave(lib_exc, write_exc)

\* C13: a persist that returns with a non-empty table has written the file,
\* and whenever a persist changes the file, the file is the whole table as
\* it is after the flush: the table before the call followed by every reading
\* buffered before the call, the buffer being empty.  A persist that finds
\* the table empty after its flush leaves the file as it was.
C13_PersistWritesWholeTable ==
    [][PersistStep =>
          /\ (saver' = "sleeping" /\ data_log' # <<>>) => log_file' = File(data_log')
          /\ log_file' # log_file =>
                 /\ log_file' = File(data_log')
                 /\ data_log' = data_log \o data_buffer
                 /\ data_log' # <<>>
                 /\ data_buffer' = <<>>
                 /\ \A k \in 1..Len(ingested) : InSeq(ingested[k].entry, log_file'.rows)
          /\ data_log' = <<>> => log_file' = log_file
      ]_vars

\* A file that held one row now holds that row and two readings ingested
\* since, and the buffer is empty.
C13_Witness ==
    /\ log_file.exists
    /\ Len(log_file.rows) = 3
    /\ log_file.rows[1] = OldRow
    /\ Len(ingested) = 2
    /\ \A k \in 1..2 : log_file.rows[k + 1] = ingested[k].entry
    /\ data_buffer = <<>>

\* C14: a history query that answers has flushed first: the buffer is empty
\* and the table ends with every reading ingested so far, in ingest order;
\* the rows it returns are the last min(limit, number of rows) rows of the
\* table, oldest first.
C14_RecentRows ==
    data_response.status = 200 =>
        LET rows == data_response.rows
            n == Len(data_log)
        IN  /\ data_buffer = <<>>
            /\ Len(ingested) <= n
            /\ \A k \in 1..Len(ingested) :
                   data_log[n - Len(ingested) + k] = ingested[k].entry
            /\ Len(rows) = Min(data_response.limit, n)
            /\ \A k \in 1..Len(rows) : rows[k] = data_log[n - Len(rows) + k]

\* A query with limit 2 on a table of three rows answered with the two
\* readings ingested last, older one first.
C14_Witness ==
    /\ data_response.status = 200
    /\ data_response.limit = 2
    /\ Len(data_log) = 3
    /\ Len(ingested) = 2
    /\ data_response.rows = <<ingested[1].entry, ingested[2].entry>>

DictItems(d) == { d[i] : i \in 1..Len(d) } \ {Dummy}

\* C16: the removal done for a disconnected producer leaves no entry for its
\* identifier, changes nothing at all when there was none, raises nothing
\* (the handler ends as disconnected, not failed), and leaves every other
\* identifier's entry and the consumer flag as they were.
C16_RemoveProducer ==
    [][\A c \in Conns :
          ReceiveDisconnect(c) =>
              /\ ws_id[c] \notin DictKeys(computercraft_connections')
              /\ DictItems(computercraft_connections') =
                     { e \in DictItems(computercraft_connections) :
                           e.computer_id # ws_id[c] }
              /\ ws_id[c] \notin DictKeys(computercraft_connections) =>
                     computercraft_connections' = computercraft_connections
              /\ esp8266_connected' = esp8266_connected
              /\ ws_state'[c] = "disconnected"
              /\ ws_exc' = ws_exc
      ]_vars

\* Two producers registered under one identifier and both have disconnected:
\* the second removal found no entry.
C16_Witness ==
    /\ ws_state[1] = "disconnected"
    /\ ws_state[2] = "disconnected"
    /\ ws_id[1] = ws_id[2]
    /\ DictKeys(computercraft_connections) = {}

\* C17: in every state (all tasks are then suspended: a producer handler in
\* accept, receive_text or send, the command handler in send_text, the
\* flusher in its sleep) no task holds the registry lock or the log lock:
\* both locks are free.
C17_NoLockAcrossSuspension ==
    /\ \A c \in Conns :
           /\ data_lock # Task("websocket", c)
           /\ conn_lock # Task("websocket", c)
    /\ \A sid \in Sids : conn_lock # Task("socketio", sid)
    /\ data_lock \notin {Task("saver", 0), Task("http", 0)}
    /\ data_lock = Free
    /\ conn_lock = Free

\* Both locks have been used: a producer registered and appended a reading,
\* the consumer connected, and the handler is suspended in receive_text
\* while the flusher sleeps.
C17_Witness ==
    \E c \in Conns :
        /\ ws_state[c] = "receiving"
        /\ c \in DictValues(computercraft_connections)
        /\ data_buffer # <<>>
        /\ esp8266_connected
        /\ saver = "sleeping"

\* C18: shutdown stops the flusher cleanly: the step of the lifespan that
\* awaits the flusher never raises, and once the lifespan has stopped the
\* flusher has ended by cancellation and does not hold the log lock.
C18_ShutdownClean ==
    /\ lifespan # "raised"
    /\ lifespan = "stopped" =>
           /\ saver = "cancelled"
           /\ data_lock # Task("saver", 0)

\* C19: the disconnect of one producer removes only its own registration:
\* every other connection whose handle is in the registry before the step is
\* still in it after the step.
C19_DisconnectRemovesOwn ==
    [][\A c \in Conns :
          ReceiveDisconnect(c) =>
              \A c2 \in Conns \ {c} :
                  c2 \in DictValues(computercraft_connections) =>
                      c2 \in DictValues(computercraft_connections')
      ]_vars

\* C20: the consumer-presence flag is true exactly when at least one consumer
\* session is connected.
C20_FlagTracksPresence == esp8266_connected = (sessions # {})

====
